---- MODULE Spec2Model ----
(***************************************************************************)
(* harb: a heap-dump analyser.  The command layer (src/main.cc) is         *)
(* modelled from its code; the Graph, the dominator engine and the Parser  *)
(* it calls (graph.h, ruby_heap_obj.h: not part of src/) are modelled from *)
(* spec.md sections 3, 4 and 6.                                            *)
(***************************************************************************)
EXTENDS Integers, Sequences, FiniteSets, TLC

\* ------------------------------------------------------------------ bounds
NumNodes == 3
MaxEdges == 3
\* Type tags are 1..NumTypes, sizes 0..MaxSize.
NumTypes == 2
MaxSize == 2
\* The most records a second snapshot holds.
MaxStream == 3

\* --------------------------------------------------------------- constants
\* A null pointer / a missing argument.
NULL == -1
\* The reserved identity of the synthetic super-root; no record carries it.
SUPER_ROOT == 0

VARIABLES
  heap,       \* the store: addr -> [is_root, refs, type, memsize]
  out,        \* the command being executed and what it has printed
  pc,         \* cmd_rootpath's position: "idle" or "while"
  obj,        \* cmd_rootpath: the start node
  cur,        \* cmd_rootpath: the node being expanded / the root found
  q,          \* cmd_rootpath: the FIFO work queue
  visited,    \* cmd_rootpath: the visited set
  parent,     \* cmd_rootpath: the predecessor map
  found,      \* cmd_rootpath: whether a root was discovered
  last_path,  \* history: the previous root_path report, while the same node is asked again
  doms,       \* dominator engine: the idom map being refined
  changed,    \* dominator engine: whether the last pass changed an entry
  dump_file   \* the second snapshot handed to diff: a sequence of records

rootpath_locals == <<pc, obj, cur, q, visited, parent, found, last_path>>
engine_vars == <<doms, changed>>
vars == <<heap, out, rootpath_locals, engine_vars, dump_file>>

Addrs == 1..NumNodes
\* strtoull results a command line can carry: 0, a stored address, or an
\* address no record has; NULL stands for a missing or empty argument.
UnknownAddr == NumNodes + 1
ArgValues == {NULL} \cup (0..UnknownAddr)

Range(s) == {s[i] : i \in 1..Len(s)}

RECURSIVE SetToSeq(_)
\* The elements of a finite set of integers in ascending order.
SetToSeq(S) ==
  IF S = {} THEN <<>>
  ELSE LET m == CHOOSE x \in S : \A y \in S : x <= y
       IN <<m>> \o SetToSeq(S \ {m})

\* One printed line: its kind, the address it names, a number it carries.
Msg(t, a, n) == [t |-> t, a |-> a, n |-> n]

\* ------------------------------------------------------------------ Graph
\* Graph::get_heap_object(addr): the stored node, or NULL.
get_heap_object(addr) == IF addr \in DOMAIN heap THEN addr ELSE NULL

is_root_object(o) == heap[o].is_root

\* RubyHeapObj::get_refs_from(): the node's references, in declaration order.
get_refs_from(o) == heap[o].refs

Roots == {a \in DOMAIN heap : is_root_object(a)}

\* The edges of the graph with SUPER_ROOT: SUPER_ROOT to every root-flagged
\* node (in store order), every node to its references.
SuccSeq(n) == IF n = SUPER_ROOT THEN SetToSeq(Roots) ELSE get_refs_from(n)

AllNodes == {SUPER_ROOT} \cup DOMAIN heap

Preds(n) == {p \in AllNodes : n \in Range(SuccSeq(p))}

\* ------------------------------------------------------- Dominator Engine
Undef == NULL

RECURSIVE DfsVisit(_, _), DfsChildren(_, _, _)
\* Step 1: depth-first traversal; st = [seen, post] (postorder so far).
DfsVisit(n, st) ==
  LET st1 == [st EXCEPT !.seen = @ \cup {n}]
      st2 == DfsChildren(SuccSeq(n), 1, st1)
  IN [st2 EXCEPT !.post = Append(@, n)]

DfsChildren(s, i, st) ==
  IF i > Len(s) THEN st
  ELSE DfsChildren(s, i + 1, IF s[i] \in st.seen THEN st ELSE DfsVisit(s[i], st))

Reverse(s) == [i \in 1..Len(s) |-> s[Len(s) + 1 - i]]

\* The reachable nodes in reverse postorder, SUPER_ROOT first.
ReversePostorder == Reverse(DfsVisit(SUPER_ROOT, [seen |-> {}, post |-> <<>>]).post)

\* A node's reverse-postorder number (0 when it was not visited).
RpoNumber(rpo, n) ==
  IF n \in Range(rpo) THEN CHOOSE i \in 1..Len(rpo) : rpo[i] = n ELSE 0

\* InitialIdom with every entry started at SUPER_ROOT instead of undefined.
InitialIdomAllDefined == [n \in AllNodes |-> SUPER_ROOT]

\* Step 2: idom[SUPER_ROOT] = SUPER_ROOT, every other entry undefined.
InitialIdom == [n \in AllNodes |-> IF n = SUPER_ROOT THEN SUPER_ROOT ELSE Undef]

RECURSIVE Intersect(_, _, _, _)
\* Walk the two chains upward by their current idom until they meet; the
\* finger with the larger reverse-postorder number is the one advanced.
Intersect(rpo, idom, f1, f2) ==
  IF f1 = f2 THEN f1
  ELSE IF RpoNumber(rpo, f1) > RpoNumber(rpo, f2)
       THEN Intersect(rpo, idom, idom[f1], f2)
       ELSE Intersect(rpo, idom, f1, idom[f2])

RECURSIVE IntersectAll(_, _, _, _)
\* The intersection of a candidate with each processed predecessor in ps.
IntersectAll(rpo, idom, cand, ps) ==
  IF ps = <<>> THEN cand
  ELSE IntersectAll(rpo, idom, Intersect(rpo, idom, ps[1], cand), Tail(ps))

\* NewIdom without the intersection: the first processed predecessor wins.
NewIdomFirstPredecessor(rpo, idom, n) ==
  LET processed == SetToSeq({p \in Preds(n) : idom[p] # Undef})
  IN processed[1]

\* Step 3 for one node: the new idom of n from its processed predecessors.
NewIdom(rpo, idom, n) ==
  LET processed == SetToSeq({p \in Preds(n) : idom[p] # Undef})
  IN IntersectAll(rpo, idom, processed[1], Tail(processed))

RECURSIVE PassFrom(_, _, _)
\* Step 3: one full pass over rpo[i..], updating idom in place.
PassFrom(rpo, idom, i) ==
  IF i > Len(rpo) THEN idom
  ELSE PassFrom(rpo, [idom EXCEPT ![rpo[i]] = NewIdom(rpo, idom, rpo[i])], i + 1)

\* One full reverse-postorder pass (SUPER_ROOT, rpo[1], is excluded).
DominatorPass(idom) == PassFrom(ReversePostorder, idom, 2)

RECURSIVE Fixpoint(_)
\* Step 4: repeat the full pass until no idom entry changes.
Fixpoint(idom) ==
  LET next == DominatorPass(idom)
  IN IF next = idom THEN idom ELSE Fixpoint(next)

build_dominator_tree == Fixpoint(InitialIdom)

\* The Dominator Index.  It is built on first need and cached; the graph
\* never changes after construction, so the cached map is this value.
DominatorIndex == build_dominator_tree

\* Graph::get_idom(o): idom[o], or NULL when o has no idom entry.
get_idom(o) ==
  LET index == DominatorIndex
  IN IF index[o] = Undef THEN NULL ELSE index[o]

\* The children map: the inverse of idom.
Children(index, n) == {c \in DOMAIN heap : index[c] = n}

RECURSIVE Subtree(_, _)
\* The nodes below n in the dominator tree, depth first, n excluded.
Subtree(index, n) ==
  LET RECURSIVE Each(_)
      Each(cs) == IF cs = <<>> THEN <<>>
                  ELSE <<cs[1]>> \o Subtree(index, cs[1]) \o Each(Tail(cs))
  IN Each(SetToSeq(Children(index, n)))

\* Graph::get_dominators(o, dominators): fills the vector.
get_dominators(o) ==
  LET index == DominatorIndex
  IN Subtree(index, o)

\* RubyHeapObj::print_ref_object(out): one line naming the object; called
\* through a null pointer the process dies.
print_ref_object(o) ==
  IF o = NULL THEN Msg("segfault", NULL, 0) ELSE Msg("ref", o, 0)

RECURSIVE print_ref_objects(_)
print_ref_objects(objs) ==
  IF objs = <<>> THEN <<>>
  ELSE <<print_ref_object(objs[1])>> \o print_ref_objects(Tail(objs))

\* ----------------------------------------------------------- Command layer
\* get_ruby_heap_obj_arg(args): [obj, msgs]; args is NULL (missing or empty)
\* or the value strtoull gives.
get_ruby_heap_obj_arg(args) ==
  IF args = NULL
  THEN [obj |-> NULL, msgs |-> <<Msg("error_no_address", NULL, 0)>>]
  ELSE IF args = 0
  THEN [obj |-> NULL, msgs |-> <<Msg("error_invalid_address", NULL, 0)>>]
  ELSE IF get_heap_object(args) = NULL
  THEN [obj |-> NULL, msgs |-> <<Msg("error_not_found", args, 0)>>]
  ELSE [obj |-> get_heap_object(args), msgs |-> <<>>]

Report(cmd, args, msgs) == [cmd |-> cmd, args |-> args, msgs |-> msgs]

\* What cmd_print writes.
cmd_print_output(args) ==
  LET r == get_ruby_heap_obj_arg(args)
  IN IF r.obj = NULL THEN r.msgs
     ELSE r.msgs \o <<Msg("object", r.obj, heap[r.obj].memsize)>>

\* cmd_idom_output without the test for a root-flagged node.
cmd_idom_output_no_root_test(args) ==
  LET r == get_ruby_heap_obj_arg(args)
  IN IF r.obj = NULL THEN r.msgs
     ELSE LET idom == get_idom(r.obj)
          IN IF idom # NULL
             THEN <<Msg("dominator_for", r.obj, 0), print_ref_object(idom)>>
             ELSE <<Msg("could_not_determine_dominator", r.obj, 0)>>

\* What cmd_idom writes.
cmd_idom_output(args) ==
  LET r == get_ruby_heap_obj_arg(args)
  IN IF r.obj = NULL \/ is_root_object(r.obj) THEN r.msgs
     ELSE LET idom == get_idom(r.obj)
          IN IF idom # NULL
             THEN <<Msg("dominator_for", r.obj, 0), print_ref_object(idom)>>
             ELSE <<Msg("could_not_determine_dominator", r.obj, 0)>>

\* cmd_dominators_output with the emptiness test inverted.
cmd_dominators_output_inverted(args) ==
  LET r == get_ruby_heap_obj_arg(args)
  IN IF r.obj = NULL \/ is_root_object(r.obj) THEN r.msgs
     ELSE LET dominators == get_dominators(r.obj)
          IN <<Msg("dominates", r.obj, 0)>> \o
             (IF dominators = <<>>
              THEN print_ref_objects(dominators)
              ELSE <<Msg("does_not_dominate_any", r.obj, 0)>>)

\* What cmd_dominators writes.
cmd_dominators_output(args) ==
  LET r == get_ruby_heap_obj_arg(args)
  IN IF r.obj = NULL \/ is_root_object(r.obj) THEN r.msgs
     ELSE LET dominators == get_dominators(r.obj)
          IN <<Msg("dominates", r.obj, 0)>> \o
             (IF dominators # <<>>
              THEN print_ref_objects(dominators)
              ELSE <<Msg("does_not_dominate_any", r.obj, 0)>>)

\* main(): the command loop is back at readline("harb> ").
AtPrompt == out.cmd = "none" /\ pc = "idle"

cmd_print(args) ==
  /\ AtPrompt
  /\ out' = Report("print", args, cmd_print_output(args))
  /\ UNCHANGED <<heap, rootpath_locals, engine_vars, dump_file>>

cmd_idom(args) ==
  /\ AtPrompt
  /\ out' = Report("idom", args, cmd_idom_output(args))
  /\ UNCHANGED <<heap, rootpath_locals, engine_vars, dump_file>>

cmd_dominators(args) ==
  /\ AtPrompt
  /\ out' = Report("dominators", args, cmd_dominators_output(args))
  /\ UNCHANGED <<heap, rootpath_locals, engine_vars, dump_file>>

\* ------------------------------------------------------------ the graphs
EdgeSets == {E \in SUBSET (Addrs \X Addrs) : Cardinality(E) <= MaxEdges}

\* The store of a graph with edges E and root-flagged nodes R, every node
\* of type ty[a] and size sz[a].
Store(E, R, ty, sz) ==
  [a \in Addrs |-> [is_root |-> a \in R,
                    refs    |-> SetToSeq({b \in Addrs : <<a, b>> \in E}),
                    type    |-> ty[a],
                    memsize |-> sz[a]]]

NoReport == Report("none", NULL, <<>>)

\* The values of the variables a specification does not use.
NoPath == [args |-> NULL, msgs |-> <<>>]
EmptyMap == [a \in {} |-> NULL]

RootpathIdle ==
  /\ pc = "idle" /\ obj = NULL /\ cur = NULL /\ q = <<>> /\ visited = {}
  /\ parent = EmptyMap /\ found = FALSE /\ last_path = NoPath

EngineIdle == doms = EmptyMap /\ changed = FALSE

\* main(): the command returned; the loop reads the next line.
readline ==
  /\ out.cmd # "none" /\ pc = "idle"
  /\ out' = NoReport
  /\ last_path' = IF out.cmd = "rootpath" /\ out.args \in DOMAIN heap
                  THEN [args |-> out.args, msgs |-> out.msgs] ELSE NoPath
  /\ UNCHANGED <<heap, pc, obj, cur, q, visited, parent, found, engine_vars, dump_file>>

\* The state after Graph(heap_file) is constructed.
Init ==
  /\ \E E \in EdgeSets, R \in SUBSET Addrs :
       heap = Store(E, R, [a \in Addrs |-> 1], [a \in Addrs |-> 1])
  /\ out = NoReport
  /\ RootpathIdle /\ EngineIdle /\ dump_file = <<>>

Next ==
  \/ \E args \in ArgValues : cmd_print(args)
  \/ \E args \in ArgValues : cmd_idom(args)
  \/ \E args \in ArgValues : cmd_dominators(args)
  \/ readline

Spec == Init /\ [][Next]_vars

\* ------------------------------------------------------------- root path
RECURSIVE ScanRefsRootFirst(_, _, _)
\* ScanRefs with the root test made before the visited test: a reference
\* back to the start node ends the search when the start node is a root.
ScanRefsRootFirst(refs, i, st) ==
  IF i > Len(refs) THEN st
  ELSE LET ref == refs[i]
       IN IF is_root_object(ref)
          THEN [st EXCEPT !.cur = ref, !.found = TRUE,
                          !.visited = @ \cup {ref},
                          !.parent = IF ref \in st.visited THEN @ ELSE (ref :> st.cur) @@ @]
          ELSE IF ref \in st.visited THEN ScanRefsRootFirst(refs, i + 1, st)
          ELSE ScanRefsRootFirst(refs, i + 1,
                 [st EXCEPT !.visited = @ \cup {ref},
                            !.parent = (ref :> st.cur) @@ @,
                            !.q = Append(@, ref)])

RECURSIVE ScanRefs(_, _, _)
\* The for loop over the references of the dequeued node, from reference i
\* on; st = [cur, q, visited, parent, found].  It breaks at the first
\* unvisited root-flagged reference.
ScanRefs(refs, i, st) ==
  IF i > Len(refs) THEN st
  ELSE LET ref == refs[i]
       IN IF ref \in st.visited THEN ScanRefs(refs, i + 1, st)
          ELSE LET st1 == [st EXCEPT !.visited = @ \cup {ref},
                                     !.parent = (ref :> st.cur) @@ @]
               IN IF is_root_object(ref)
                  THEN [st1 EXCEPT !.cur = ref, !.found = TRUE]
                  ELSE ScanRefs(refs, i + 1, [st1 EXCEPT !.q = Append(@, ref)])

\* parent[n] of a sparse_hash_map: a missing key reads as NULL.
ParentOf(p, n) == IF n \in DOMAIN p THEN p[n] ELSE NULL

RECURSIVE WalkParents(_, _)
\* while (cur != NULL) { print; cur = parent[cur]; }
WalkParents(p, n) ==
  IF n = NULL THEN <<>>
  ELSE <<print_ref_object(n)>> \o WalkParents(p, ParentOf(p, n))

\* cmd_rootpath up to the loop: the argument, the queue and the visited set.
cmd_rootpath(args) ==
  /\ AtPrompt
  /\ LET r == get_ruby_heap_obj_arg(args)
     IN /\ out' = Report("rootpath", args, r.msgs)
        /\ IF r.obj = NULL
           THEN UNCHANGED <<pc, obj, cur, q, visited, parent, found, last_path>>
           ELSE /\ pc' = "while"
                /\ obj' = r.obj
                /\ q' = <<r.obj>>
                /\ visited' = {r.obj}
                /\ parent' = EmptyMap
                /\ found' = FALSE
                /\ cur' = NULL
                /\ last_path' = IF last_path.args = r.obj THEN last_path ELSE NoPath
  /\ UNCHANGED <<heap, engine_vars, dump_file>>

\* One iteration of while (!q.empty() && !found).
rootpath_while ==
  /\ pc = "while"
  /\ q # <<>> /\ ~found
  /\ LET st == ScanRefs(get_refs_from(Head(q)), 1,
                        [cur |-> Head(q), q |-> Tail(q), visited |-> visited,
                         parent |-> parent, found |-> found])
     IN /\ cur' = st.cur
        /\ q' = st.q
        /\ visited' = st.visited
        /\ parent' = st.parent
        /\ found' = st.found
  /\ UNCHANGED <<heap, out, pc, obj, last_path, engine_vars, dump_file>>

RECURSIVE WalkParentsShort(_, _)
WalkParentsShort(p, n) ==
  IF ParentOf(p, n) = NULL THEN <<>>
  ELSE <<print_ref_object(n)>> \o WalkParentsShort(p, ParentOf(p, n))

\* rootpath_output with the walk ended one node early: while (parent[cur] != NULL).
rootpath_output_stops_early(o, c, p, f) ==
  IF ~f THEN <<Msg("error_no_root_path", o, 0)>>
  ELSE <<Msg("root_path_to", o, 0)>> \o WalkParentsShort(p, c) \o <<Msg("newline", NULL, 0)>>

\* What cmd_rootpath writes once the loop has ended.
rootpath_output(o, c, p, f) ==
  IF ~f THEN <<Msg("error_no_root_path", o, 0)>>
  ELSE <<Msg("root_path_to", o, 0)>> \o WalkParents(p, c) \o <<Msg("newline", NULL, 0)>>

\* The loop has ended: the report, and the return to main().
rootpath_report ==
  /\ pc = "while"
  /\ ~(q # <<>> /\ ~found)
  /\ out' = [out EXCEPT !.msgs = rootpath_output(obj, cur, parent, found)]
  /\ pc' = "idle" /\ obj' = NULL /\ cur' = NULL /\ q' = <<>> /\ visited' = {}
  /\ parent' = EmptyMap /\ found' = FALSE
  /\ UNCHANGED <<heap, last_path, engine_vars, dump_file>>

NextPath ==
  \/ \E args \in ArgValues : cmd_rootpath(args)
  \/ rootpath_while
  \/ rootpath_report
  \/ readline

SpecPath == Init /\ [][NextPath]_vars

\* ------------------------------------------- the dominator engine, by pass
\* Steps 1 and 2 are done: the engine is about to make its first pass.
InitDom ==
  /\ \E E \in EdgeSets, R \in SUBSET Addrs :
       heap = Store(E, R, [a \in Addrs |-> 1], [a \in Addrs |-> 1])
  /\ out = NoReport
  /\ RootpathIdle /\ dump_file = <<>>
  /\ doms = InitialIdom
  /\ changed = TRUE

\* Steps 3 and 4: one full pass, repeated while the last one changed an entry.
dominator_pass ==
  /\ changed
  /\ doms' = DominatorPass(doms)
  /\ changed' = (doms' # doms)
  /\ UNCHANGED <<heap, out, rootpath_locals, dump_file>>

NextDom == dominator_pass

SpecDom == InitDom /\ [][NextDom]_vars

\* ---------------------------------------------------------------- summary
\* Graph::get_num_heap_objects(): the number of stored nodes.
get_num_heap_objects == Cardinality(DOMAIN heap)

\* Graph::each_heap_object(fn): every stored node, in store order.
each_heap_object == SetToSeq(DOMAIN heap)

\* type_map[type] of a sparse_hash_map: a missing key is inserted as 0.
Touch(type_map, type) ==
  IF type \in DOMAIN type_map THEN type_map ELSE (type :> 0) @@ type_map

\* summary_visit with the accumulating branch lost: the entry is assigned.
summary_visit_assigns(st, o) ==
  [total_size |-> st.total_size + heap[o].memsize,
   type_map   |-> [Touch(st.type_map, heap[o].type) EXCEPT ![heap[o].type] = heap[o].memsize]]

\* The lambda cmd_summary runs on one object; st = [total_size, type_map].
summary_visit(st, o) ==
  LET type == heap[o].type
      tm == Touch(st.type_map, type)
  IN [total_size |-> st.total_size + heap[o].memsize,
      type_map   |-> IF tm[type] # 0
                     THEN [tm EXCEPT ![type] = @ + heap[o].memsize]
                     ELSE [tm EXCEPT ![type] = heap[o].memsize]]

RECURSIVE summary_pass(_, _)
summary_pass(objs, st) ==
  IF objs = <<>> THEN st ELSE summary_pass(Tail(objs), summary_visit(st, Head(objs)))

RECURSIVE TypeLines(_, _)
\* One line per entry of the type map.
TypeLines(type_map, types) ==
  IF types = <<>> THEN <<>>
  ELSE <<Msg("type_bytes", Head(types), type_map[Head(types)])>>
         \o TypeLines(type_map, Tail(types))

\* What cmd_summary writes.
cmd_summary_output ==
  LET st == summary_pass(each_heap_object, [total_size |-> 0, type_map |-> EmptyMap])
  IN <<Msg("total_objects", NULL, get_num_heap_objects),
       Msg("total_memsize", NULL, st.total_size)>>
       \o TypeLines(st.type_map, SetToSeq(DOMAIN st.type_map))

cmd_summary ==
  /\ AtPrompt
  /\ out' = Report("summary", NULL, cmd_summary_output)
  /\ UNCHANGED <<heap, rootpath_locals, engine_vars, dump_file>>

\* A store of nodes of every type and size, no references, no roots.
InitSummary ==
  /\ \E ty \in [Addrs -> 1..NumTypes], sz \in [Addrs -> 0..MaxSize] :
       heap = Store({}, {}, ty, sz)
  /\ out = NoReport
  /\ RootpathIdle /\ EngineIdle /\ dump_file = <<>>

NextSummary ==
  \/ cmd_summary
  \/ readline

SpecSummary == InitSummary /\ [][NextSummary]_vars

\* ------------------------------------------------------------------- diff
\* A record's serialized text is a number that encodes its address, its
\* root flag and one more bit of content; the Parser decodes it.
Serialize(addr, is_root, extra) == addr * 4 + (IF is_root THEN 2 ELSE 0) + extra

\* Parser::parse(fn): the RubyHeapObj of one record.
ParseRecord(json) == [addr |-> json \div 4, is_root |-> (json \div 2) % 2 = 1]

\* Parser::current_heap_object_json(): the text of the record being visited.
current_heap_object_json(json) == json

RECURSIVE diff_pass(_)
\* The lambda cmd_diff runs on each record of the second snapshot.
diff_pass(file) ==
  IF file = <<>> THEN <<>>
  ELSE LET o == ParseRecord(Head(file))
       IN (IF ~o.is_root /\ get_heap_object(o.addr) = NULL
           THEN <<Msg("json", NULL, current_heap_object_json(Head(file)))>>
           ELSE <<>>) \o diff_pass(Tail(file))

\* What cmd_diff writes: to the terminal on an error, to its output file
\* otherwise.  args is NULL (no file named) or the name of dump_file.
cmd_diff_output(args, opened) ==
  IF args = NULL THEN <<Msg("error_no_dump_file", NULL, 0)>>
  ELSE IF ~opened THEN <<Msg("unable_to_open", NULL, 0)>>
  ELSE diff_pass(dump_file)

cmd_diff(args, opened) ==
  /\ AtPrompt
  /\ out' = Report("diff", args, cmd_diff_output(args, opened))
  /\ UNCHANGED <<heap, rootpath_locals, engine_vars, dump_file>>

\* The addresses the records of a second snapshot carry: one that is stored
\* and two that are not.
DumpAddrs == NumNodes..(NumNodes + 2)

DumpRecords ==
  {Serialize(a, r, x) : a \in DumpAddrs, r \in BOOLEAN, x \in 0..1}

DumpFiles == UNION {[1..n -> DumpRecords] : n \in 0..MaxStream}

DumpName == 1

InitDiff ==
  /\ heap = Store({}, {}, [a \in Addrs |-> 1], [a \in Addrs |-> 1])
  /\ dump_file \in DumpFiles
  /\ out = NoReport
  /\ RootpathIdle /\ EngineIdle

NextDiff ==
  \/ \E args \in {NULL, DumpName}, opened \in BOOLEAN : cmd_diff(args, opened)
  \/ readline

SpecDiff == InitDiff /\ [][NextDiff]_vars

\* ===================================================== dominance queries
RECURSIVE Closure(_, _)
\* The nodes reachable from the set front by references, never entering a
\* node of avoid.
Closure(front, avoid) ==
  LET next == front \cup {b \in DOMAIN heap \ avoid :
                            \E a \in front : b \in Range(heap[a].refs)}
  IN IF next = front THEN front ELSE Closure(next, avoid)

\* The nodes some root-flagged node reaches once the nodes of avoid are deleted.
ReachableFromRoots(avoid) == Closure(Roots \ avoid, avoid)

Reachable == ReachableFromRoots({})

\* d lies on every path of references from a root-flagged node to v.
OnEveryRootPath(d, v) == d # v /\ v \notin ReachableFromRoots({d})

\* The node identities a command's output names as results.
Returned(msgs) == {msgs[i].a : i \in {j \in 1..Len(msgs) : msgs[j].t \in {"ref", "object"}}}

Kinds(msgs) == [i \in 1..Len(msgs) |-> msgs[i].t]

\* The queried node, when the query named a stored node.
Queried == out.args

AskedAbout(cmd) == out.cmd = cmd /\ out.args \in DOMAIN heap

\* The query was a dominance query about a reachable node that is no root.
DominanceDefined(cmd) ==
  AskedAbout(cmd) /\ ~is_root_object(Queried) /\ Queried \in Reachable

\* C1: when immediate_dominator(v), v reachable and no root, returns a node d,
\* then d differs from v, d lies on every path of references from any
\* root-flagged node to v, and every other node on all of those paths also
\* lies on every root-to-d path.
C1_ImmediateDominatorOnEveryRootPath ==
  DominanceDefined("idom") =>
    \A d \in Returned(out.msgs) :
      /\ d # Queried
      /\ OnEveryRootPath(d, Queried)
      /\ \A w \in DOMAIN heap \ {d, Queried} :
           OnEveryRootPath(w, Queried) => OnEveryRootPath(w, d)

\* The part of C1 that the code keeps: a returned dominator that is a stored
\* node is the closest node on every root path.
StoredDominatorIsImmediate ==
  DominanceDefined("idom") =>
    \A d \in Returned(out.msgs) \cap DOMAIN heap :
      /\ OnEveryRootPath(d, Queried)
      /\ \A w \in DOMAIN heap \ {d, Queried} :
           OnEveryRootPath(w, Queried) => OnEveryRootPath(w, d)

\* A node reachable only through one root but along two paths was queried.
StoredDominatorCase ==
  /\ DominanceDefined("idom")
  /\ Returned(out.msgs) \cap DOMAIN heap # {}
  /\ Cardinality(Preds(Queried)) >= 2

RECURSIVE ChainPasses(_, _, _)
\* The chain of idom values from x passes through n before SUPER_ROOT.
ChainPasses(index, x, n) ==
  IF x = SUPER_ROOT \/ index[x] = Undef THEN FALSE
  ELSE index[x] = n \/ ChainPasses(index, index[x], n)

C6_UndefinedForRootAndUnreachable ==
  \A cmd \in {"idom", "dominators"} :
    (AskedAbout(cmd) /\ (is_root_object(Queried) \/ Queried \notin Reachable)) =>
      /\ Returned(out.msgs) = {}
      /\ \A i \in 1..Len(out.msgs) :
           out.msgs[i].t \notin {"segfault", "ref", "dominator_for"}

\* immediate_dominator was asked about a stored node no root reaches.
C6_Witness ==
  /\ AskedAbout("idom")
  /\ ~is_root_object(Queried)
  /\ Queried \notin Reachable
  /\ Roots # {}

\* The kinds of lines a valid result is made of.
ValidKinds(cmd, kinds) ==
  IF cmd = "idom" THEN kinds = <<"dominator_for", "ref">>
  ELSE /\ Len(kinds) >= 2
       /\ kinds[1] = "dominates"
       /\ \/ kinds = <<"dominates", "does_not_dominate_any">>
          \/ \A i \in 2..Len(kinds) : kinds[i] = "ref"

\* C7: the outcomes for an unknown identity, for a root-flagged node and for
\* an unreachable node are each distinguishable from one another and from
\* every valid result; in particular dominated_set of a root or unreachable
\* node is distinguishable from the valid empty result.
C7_FailureOutcomesDistinguishable ==
  \A cmd \in {"idom", "dominators"} :
    /\ (out.cmd = cmd /\ out.args = UnknownAddr) =>
         Kinds(out.msgs) = <<"error_not_found">>
    /\ (AskedAbout(cmd) /\ is_root_object(Queried)) =>
         /\ Kinds(out.msgs) # <<"error_not_found">>
         /\ ~ValidKinds(cmd, Kinds(out.msgs))
    /\ (AskedAbout(cmd) /\ ~is_root_object(Queried) /\ Queried \notin Reachable) =>
         /\ Kinds(out.msgs) # <<"error_not_found">>
         /\ Kinds(out.msgs) # <<>>
         /\ ~ValidKinds(cmd, Kinds(out.msgs))

\* Every valid result is made of the kinds of lines ValidKinds names.
ValidResultsHaveValidKinds ==
  \A cmd \in {"idom", "dominators"} :
    DominanceDefined(cmd) => ValidKinds(cmd, Kinds(out.msgs))

\* C8: SUPER_ROOT is never returned by any query, as a result or as an
\* element of a result.
C8_SuperRootNeverReturned == SUPER_ROOT \notin Returned(out.msgs)

\* ============================================================== root path
\* The node identities a report names, in the order printed.
RECURSIVE PathOf(_)
PathOf(msgs) ==
  IF msgs = <<>> THEN <<>>
  ELSE (IF Head(msgs).t = "ref" THEN <<Head(msgs).a>> ELSE <<>>) \o PathOf(Tail(msgs))

\* cmd_rootpath has reported about a stored node.
RootpathReported == out.cmd = "rootpath" /\ pc = "idle" /\ out.args \in DOMAIN heap

RootpathSucceeded == RootpathReported /\ out.msgs[1].t = "root_path_to"

RECURSIVE HopsFrom(_, _, _)
\* The least number of hops, k or more, at which a root-flagged node outside
\* seen is met from the nodes of front (0: none is ever met).
HopsFrom(front, seen, k) ==
  LET next == {b \in DOMAIN heap \ seen : \E a \in front : b \in Range(heap[a].refs)}
  IN IF next = {} THEN 0
     ELSE IF \E b \in next : heap[b].is_root THEN k
     ELSE HopsFrom(next, seen \cup next, k + 1)

\* The hop distance from v to the nearest root-flagged node other than v.
NearestRootHops(v) == HopsFrom({v}, {v}, 1)

\* C3: a successful root_path(v) reports a shortest path by hop count: it
\* starts at a root-flagged node, ends at v, every node in it is a reference
\* of the node that follows it, its hop count is the distance to the nearest
\* root other than v, and asking again gives the identical report.
C3_RootPathIsShortestAndRepeatable ==
  RootpathSucceeded =>
    LET path == PathOf(out.msgs)
        v == out.args
    IN /\ Len(path) >= 2
       /\ heap[path[1]].is_root
       /\ path[Len(path)] = v
       /\ \A i \in 1..(Len(path) - 1) : path[i] \in Range(heap[path[i + 1]].refs)
       /\ Len(path) - 1 = NearestRootHops(v)
       /\ last_path.args = v => last_path.msgs = out.msgs

\* A path of two hops was reported for the second time in a row, for a node
\* that has more than one reference.
C3_Witness ==
  /\ RootpathSucceeded
  /\ Len(PathOf(out.msgs)) = 3
  /\ last_path.args = out.args
  /\ Len(heap[out.args].refs) >= 2

\* The roots other than v that v reaches in one or more hops.
RootsAhead(v) == (Roots \ {v}) \cap Closure({v}, {})

\* The variant of the search loop: the nodes not yet visited plus the queue.
RootpathVariant == Cardinality(DOMAIN heap \ visited) + Len(q)

\* C5: root_path(v) terminates, also on cyclic graphs, and reports "no path
\* to root" exactly when no root-flagged node other than v is reachable from
\* v in one or more hops, whatever the root flag of v itself.
C5_NoPathExactlyWhenNoRootAhead ==
  /\ [](RootpathReported =>
          (out.msgs = <<Msg("error_no_root_path", out.args, 0)>>
             <=> RootsAhead(out.args) = {}))
  /\ [](pc = "while" => visited \subseteq DOMAIN heap /\ Range(q) \subseteq visited)
  /\ [][rootpath_while => RootpathVariant' < RootpathVariant]_vars

\* "No path" was reported for a root-flagged node that lies on a cycle.
C5_Witness ==
  /\ RootpathReported
  /\ out.msgs = <<Msg("error_no_root_path", out.args, 0)>>
  /\ heap[out.args].is_root
  /\ \E a \in Range(heap[out.args].refs) : a # out.args /\ out.args \in Closure({a}, {})

\* ======================================================= dominator engine
RECURSIVE IsAncestor(_, _, _)
\* a is reached from x by following the map m one or more times.
IsAncestor(m, a, x) ==
  IF x = SUPER_ROOT \/ m[x] = Undef THEN FALSE
  ELSE m[x] = a \/ IsAncestor(m, a, m[x])

\* Across a pass an idom entry, once defined, stays or moves to an ancestor
\* of its previous value in the idom chain the pass leaves.
MovesTowardSuperRoot ==
  \A n \in DOMAIN heap :
    doms[n] # Undef =>
      \/ doms'[n] = doms[n]
      \/ IsAncestor(doms', doms'[n], doms[n])

RECURSIVE SumOver(_, _)
SumOver(f, S) ==
  IF S = {} THEN 0
  ELSE LET x == CHOOSE y \in S : TRUE IN f[x] + SumOver(f, S \ {x})

\* The variant of the iteration: the reverse-postorder numbers of the idom
\* entries, an undefined entry counting as one more than any number.
PassVariant(m) ==
  LET rpo == ReversePostorder
  IN SumOver([n \in DOMAIN heap |->
                IF m[n] = Undef THEN Len(rpo) + 1 ELSE RpoNumber(rpo, m[n])],
             DOMAIN heap)

\* C10: on every finite graph the iteration reaches a fixpoint after finitely
\* many full passes (every pass that changes an entry lowers a variant that
\* cannot fall below zero, and the pass that changes nothing ends it), and
\* across passes each node's idom, once defined, only ever changes to a node
\* closer to SUPER_ROOT.
C10_PassesConvergeMonotonically ==
  /\ [][dominator_pass =>
          /\ MovesTowardSuperRoot
          /\ changed' => PassVariant(doms') < PassVariant(doms)]_vars
  /\ [](~changed => doms = DominatorPass(doms) /\ doms = build_dominator_tree)
  /\ [](\A n \in DOMAIN heap : n \notin Reachable => doms[n] = Undef)

\* A pass after the first one has changed an entry that was already defined.
C10_Witness ==
  /\ changed
  /\ doms # InitialIdom
  /\ doms # DominatorPass(InitialIdom)

\* ================================================================ summary
SummaryLines == {i \in 1..Len(out.msgs) : out.msgs[i].t = "type_bytes"}

NodesOfType(t) == {a \in DOMAIN heap : heap[a].type = t}

RECURSIVE SizeOf(_)
\* The sum of size_bytes over a set of nodes.
SizeOf(S) ==
  IF S = {} THEN 0
  ELSE LET a == CHOOSE x \in S : TRUE IN heap[a].memsize + SizeOf(S \ {a})

\* C9: after the summary pass the grand total equals the sum of the per-type
\* totals, each per-type total is the sum of the sizes of the nodes of that
\* type, and the object count is the sum of the per-type node counts.
C9_SummaryTotalsAgree ==
  out.cmd = "summary" =>
    LET Bytes == [i \in SummaryLines |-> out.msgs[i].n]
        Count == [i \in SummaryLines |-> Cardinality(NodesOfType(out.msgs[i].a))]
    IN /\ out.msgs[2].n = SumOver(Bytes, SummaryLines)
       /\ \A i \in SummaryLines : out.msgs[i].n = SizeOf(NodesOfType(out.msgs[i].a))
       /\ \A i, k \in SummaryLines : out.msgs[i].a = out.msgs[k].a => i = k
       /\ {out.msgs[i].a : i \in SummaryLines} = {heap[a].type : a \in DOMAIN heap}
       /\ out.msgs[1].n = SumOver(Count, SummaryLines)

\* A summary of a store with two types, one of them carried by two nodes of
\* which the first has size zero.
C9_Witness ==
  /\ out.cmd = "summary"
  /\ Cardinality(SummaryLines) = 2
  /\ \E a, b \in DOMAIN heap :
       a < b /\ heap[a].type = heap[b].type /\ heap[a].memsize = 0 /\ heap[b].memsize > 0

\* =================================================================== diff
DiffRan == out.cmd = "diff" /\ out.args # NULL /\ out.msgs # <<Msg("unable_to_open", NULL, 0)>>

\* The identities the second snapshot carries on a record that is not
\* root-flagged and the store does not hold.
NewIdentities ==
  {ParseRecord(dump_file[i]).addr :
     i \in {k \in 1..Len(dump_file) : ~ParseRecord(dump_file[k]).is_root}} \ DOMAIN heap

\* C4: the diff output holds no record whose id is stored and no root-flagged
\* record, and every id the second snapshot carries on a record that is not
\* root-flagged and that the store lacks appears in it exactly once, as that
\* record's text.
C4_DiffEmitsEachNewIdentityOnce ==
  DiffRan =>
    /\ \A i \in 1..Len(out.msgs) :
         /\ ParseRecord(out.msgs[i].n).addr \notin DOMAIN heap
         /\ ~ParseRecord(out.msgs[i].n).is_root
         /\ out.msgs[i].n \in Range(dump_file)
    /\ \A id \in NewIdentities :
         Cardinality({i \in 1..Len(out.msgs) : ParseRecord(out.msgs[i].n).addr = id}) = 1

\* What the code keeps of C4: the output is the records of the second
\* snapshot that are not root-flagged and not stored, one line per record,
\* in the order read.
DiffEmitsOneLinePerNewRecord ==
  DiffRan =>
    /\ \A i \in 1..Len(out.msgs) :
         /\ ParseRecord(out.msgs[i].n).addr \notin DOMAIN heap
         /\ ~ParseRecord(out.msgs[i].n).is_root
    /\ \A json \in DumpRecords :
         (~ParseRecord(json).is_root /\ ParseRecord(json).addr \notin DOMAIN heap) =>
           Cardinality({i \in 1..Len(out.msgs) : out.msgs[i].n = json})
             = Cardinality({i \in 1..Len(dump_file) : dump_file[i] = json})

====
